---- MODULE Spec2Model ----
(***************************************************************************)
(* Witness calculator of eigen-zkit                                        *)
(* (algebraic/src/witness/witness_calculator.rs): the limb codec, the      *)
(* orchestration of the circom VM and the wtns serializer.                 *)
(*                                                                         *)
(* Numbers are scaled so that TLC's integers hold them: a byte has         *)
(* ByteRadix values instead of 256, a 32-bit word is still four bytes, so  *)
(* radix = ByteRadix^4 stands for 2^32: the values of a limb and of a u32. *)
(***************************************************************************)
EXTENDS Integers, Sequences, FiniteSets, TLC

\* ------------------------------------------------------------------ bounds
\* Values of one byte (256 in the program).
ByteRadix == 3
\* Largest wordWidth32 (n32) a circuit reports.
MaxN32 == 2
\* Largest integer the codec specification draws as an input value, besides
\* the values next to a power of radix.
MaxValue == 300
\* The serializer specification draws word vectors of up to this many words
\* past the lengths at which its u32 arithmetic overflows.
MaxExtraWords == 3
MaxWideN32 == 3
MaxStream == 5
MaxNameBytes == 3

\* ------------------------------------------------------- program constants
\* A u32 is four bytes (write_u32, n32 * 4).
BytesPerWord == 4

\* radix = 0x100000000: the values of one 32-bit limb (four bytes).
radix == ByteRadix * ByteRadix * ByteRadix * ByteRadix

RECURSIVE Pow(_, _)
Pow(b, e) == IF e = 0 THEN 1 ELSE b * Pow(b, e - 1)

\* BigInt's % and / truncate toward zero (the remainder has the dividend's sign).
TruncRem(a, b) == IF a >= 0 THEN a % b ELSE -((-a) % b)
TruncDiv(a, b) == IF a >= 0 THEN a \div b ELSE -((-a) \div b)

\* An outcome of a function that may panic.
Panicked == [ok |-> FALSE, val |-> <<>>]
Returned(v) == [ok |-> TRUE, val |-> v]

\* ------------------------------------------------------------- limb codec
\* from_array32: res = res * radix + val over the limbs, index 0 first.
RECURSIVE from_array32_loop(_, _, _)
from_array32_loop(arr, k, res) ==
    IF k > Len(arr) THEN res
    ELSE from_array32_loop(arr, k + 1, res * radix + arr[k])

\* A faulty from_array32: index 0 is taken as the least significant limb.
RECURSIVE from_array32_lsb_loop(_, _)
from_array32_lsb_loop(arr, k) ==
    IF k > Len(arr) THEN 0
    ELSE arr[k] + radix * from_array32_lsb_loop(arr, k + 1)

from_array32_lsb_first(arr) == from_array32_lsb_loop(arr, 1)

\* A faulty from_array32: the limbs are read as a two's complement number.
from_array32_signed(arr) ==
    LET v == from_array32_loop(arr, 1, 0)
    IN IF 2 * v >= Pow(radix, Len(arr)) THEN v - Pow(radix, Len(arr)) ELSE v

from_array32(arr) == from_array32_loop(arr, 1, 0)

\* The body of to_array32's while loop. c counts the limbs still free (the
\* code's c, so res[c] after c -= 1 is the sequence's element c). With c = 0
\* the decrement overflows (debug build) or wraps and the index is out of
\* bounds (release build): a panic either way. A negative remainder makes
\* to_u32() None, and unwrap() panics.
to_array32_step(rem) == TruncRem(rem, radix)

RECURSIVE to_array32_loop(_, _, _)
to_array32_loop(res, rem, c) ==
    IF rem = 0 THEN Returned(res)
    ELSE IF c = 0 THEN Panicked
    ELSE IF to_array32_step(rem) < 0 THEN Panicked
    ELSE to_array32_loop([res EXCEPT ![c] = to_array32_step(rem)],
                         TruncDiv(rem, radix), c - 1)

\* A faulty to_array32: a limb count that saturates instead of failing
\* (the value's high limbs are dropped).
RECURSIVE to_array32_trunc_loop(_, _, _)
to_array32_trunc_loop(res, rem, c) ==
    IF rem = 0 \/ c = 0 THEN Returned(res)
    ELSE IF TruncRem(rem, radix) < 0 THEN Panicked
    ELSE to_array32_trunc_loop([res EXCEPT ![c] = TruncRem(rem, radix)],
                               TruncDiv(rem, radix), c - 1)

to_array32_truncating(s, size) ==
    to_array32_trunc_loop([k \in 1..size |-> 0], s, size)

\* A faulty to_array32 that fills from the most significant end.
RECURSIVE to_array32_fwd_loop(_, _, _, _)
to_array32_fwd_loop(res, rem, c, size) ==
    IF rem = 0 THEN Returned(res)
    ELSE IF c > size THEN Panicked
    ELSE IF TruncRem(rem, radix) < 0 THEN Panicked
    ELSE to_array32_fwd_loop([res EXCEPT ![c] = TruncRem(rem, radix)],
                             TruncDiv(rem, radix), c + 1, size)

to_array32_forward(s, size) ==
    to_array32_fwd_loop([k \in 1..size |-> 0], s, 1, size)

to_array32(s, size) == to_array32_loop([k \in 1..size |-> 0], s, size)

\* ----------------------------------------------------------- the circom VM
\* The compiled circuit is an artefact of the circom compiler and the Wasm
\* wrapper around it lives in circom.rs: both are modelled from the
\* specification's VM Host Bridge. A circuit fixes its word width, its modulus,
\* its input signals and, for a faulty artefact, the VM function that raises
\* the error callback.
TrapSites == {"none", "init", "getWitnessSize", "getWitness"}

\* The circuit's modulus: the largest its word width holds, less two.
VmPrime(c) ==
    IF c.kind = "wide" THEN 2 * Pow(radix, c.n32 - 1) + 1
    ELSE Pow(radix, c.n32) - 3

Circuits ==
    [kind : {"mul", "one"}, n32 : 1..MaxN32, trap : {"none"}]
    \cup [kind : {"mul"}, n32 : {MaxN32}, trap : TrapSites]

\* Circuits over a modulus of up to MaxWideN32 words whose top word is small.
WideCircuits == [kind : {"wide"}, n32 : 1..MaxWideN32, trap : {"none"}]

SignalNames == {"a", "b"}
Unset == -1

\* hash64(name): the (msb, lsb) pair of the name's 64-bit FNV hash, kept
\* symbolic; distinct names of a circuit have distinct hashes.
fnv(name) == <<<<"msb", name>>, <<"lsb", name>>>>

\* The input signal a hash pair addresses, "" when the circuit has none.
VmSignalOf(c, msb, lsb) ==
    IF c.kind = "mul" /\ \E n \in SignalNames : fnv(n) = <<msb, lsb>>
    THEN CHOOSE n \in SignalNames : fnv(n) = <<msb, lsb>>
    ELSE ""

\* Word j (slot j, 0-based) of a value in the VM's little-endian layout.
VmWord(v, j) == (v \div Pow(radix, j)) % radix

VmStore(v, n32) == [k \in 1..n32 |-> VmWord(v, k - 1)]

RECURSIVE VmLoad(_, _)
VmLoad(mem, k) ==
    IF k > Len(mem) THEN 0 ELSE mem[k] * Pow(radix, k - 1) + VmLoad(mem, k + 1)

VmWitnessSize(c) == IF c.kind = "mul" THEN 4 ELSE 1

\* Witness element i of the run: 1, a * b, a, b for the multiplier (a signal
\* not assigned yet is zero), 1 alone for the constant circuit.
VmWitnessAt(c, m, i) ==
    IF i = 0 THEN 1
    ELSE IF i = 1
         THEN IF m.sig["a"] # Unset /\ m.sig["b"] # Unset
              THEN (m.sig["a"] * m.sig["b"]) % VmPrime(c) ELSE 0
    ELSE IF i = 2 THEN (IF m.sig["a"] # Unset THEN m.sig["a"] ELSE 0)
    ELSE (IF m.sig["b"] # Unset THEN m.sig["b"] ELSE 0)

VmFresh(c) == [mem |-> [k \in 1..c.n32 |-> 0],
               sig |-> [n \in SignalNames |-> Unset],
               sanity |-> FALSE]

\* Each VM call gives the VM's next state, whether the error callback fired
\* (the call returns Err) and the value returned.
VmOk(m, ret) == [vm |-> m, fault |-> FALSE, ret |-> ret]
VmFault(m) == [vm |-> m, fault |-> TRUE, ret |-> 0]

\* init(sanityCheck): resets the run state, not the shared memory.
vm_init(c, m, sanity) ==
    IF c.trap = "init" THEN VmFault(m)
    ELSE VmOk([m EXCEPT !.sig = [n \in SignalNames |-> Unset],
                        !.sanity = sanity], 0)

vm_get_field_num_len32(c, m) == VmOk(m, c.n32)

\* getRawPrime: the VM writes the modulus into shared memory.
vm_get_raw_prime(c, m) == VmOk([m EXCEPT !.mem = VmStore(VmPrime(c), c.n32)], 0)

vm_read_shared_rw_memory(c, m, j) == VmOk(m, m.mem[j + 1])

vm_write_shared_rw_memory(c, m, j, v) == VmOk([m EXCEPT !.mem[j + 1] = v], 0)

\* setInputSignal: the value in shared memory becomes input `pos` of the
\* signal; an unknown signal, a position past its size or a second
\* assignment raises the error callback.
vm_set_input_signal(c, m, msb, lsb, pos) ==
    LET n == VmSignalOf(c, msb, lsb) IN
    IF n = "" \/ pos # 0 THEN VmFault(m)
    ELSE IF m.sig[n] # Unset THEN VmFault(m)
    ELSE VmOk([m EXCEPT !.sig[n] = VmLoad(m.mem, 1)], 0)

vm_get_witness_size(c, m) ==
    IF c.trap = "getWitnessSize" THEN VmFault(m) ELSE VmOk(m, VmWitnessSize(c))

\* getWitness(i): the VM writes witness element i into shared memory.
vm_get_witness(c, m, i) ==
    IF c.trap = "getWitness" /\ i >= 1 THEN VmFault(m)
    ELSE VmOk([m EXCEPT !.mem = VmStore(VmWitnessAt(c, m, i), c.n32)], 0)

vm_get_version(c) == 2

\* ------------------------------------------------------ WitnessCalculator
\* n64 = (prime.bits() - 1) / 64 + 1 for a non-zero prime: the number of
\* 64-bit words (two limbs each) that hold its magnitude.
RECURSIVE n64_of(_, _)
n64_of(prime, k) ==
    LET magnitude == IF prime < 0 THEN -prime ELSE prime
    IN IF magnitude \div (radix * radix) = 0 THEN k
       ELSE n64_of(magnitude \div (radix * radix), k + 1)

\* A faulty prime_arr: VM slot i goes to limb i.
prime_arr_forward(c, m, n32) ==
    [k \in 1..n32 |-> vm_read_shared_rw_memory(c, m, k - 1).ret]

\* new_circom reads the modulus back: VM slot i goes to limb n32 - i - 1.
prime_arr(c, m, n32) ==
    [k \in 1..n32 |-> vm_read_shared_rw_memory(c, m, n32 - k).ret]

\* from_module / new_circom: the VM after getRawPrime and the calculator's
\* cached parameters.
new_circom_vm(c) == vm_get_raw_prime(c, VmFresh(c)).vm

new_circom(c) ==
    LET n32 == vm_get_field_num_len32(c, VmFresh(c)).ret
        prime == from_array32(prime_arr(c, new_circom_vm(c), n32))
    IN [n32 |-> n32, prime |-> prime, n64 |-> n64_of(prime, 1),
        circom_version |-> vm_get_version(c)]

\* A faulty write_word: slot j gets limb j.
write_word_same_index(f_arr, n32, j) == f_arr[j + 1]

\* The word calculate_witness_circom writes to VM slot j: limb n32 - 1 - j.
write_word(f_arr, n32, j) == f_arr[(n32 - 1 - j) + 1]

\* A faulty reassemble: the words are taken in VM order.
reassemble_no_reverse(wtns_u32, n32, i) ==
    [k \in 1..n32 |-> wtns_u32[(i * n32 + (k - 1)) + 1]]

\* calculate_witness's limb reassembly of witness element i:
\* arr[n32 - 1 - j] = wtns_u32[i * n32 + j].
reassemble(wtns_u32, n32, i) ==
    [k \in 1..n32 |-> wtns_u32[(i * n32 + (n32 - k)) + 1]]

\* The loop over 0..witness_size that builds wo.
RECURSIVE build_wo(_, _, _, _)
build_wo(wtns_u32, n32, witness_size, i) ==
    IF i >= witness_size THEN <<>>
    ELSE <<from_array32(reassemble(wtns_u32, n32, i))>>
         \o build_wo(wtns_u32, n32, witness_size, i + 1)

\* A faulty instance_init: the VM is not reset.
instance_init_omitted(c, m, sanity_check) == VmOk(m, 0)

\* self.instance.init(sanity_check), the first statement of calculate_witness,
\* calculate_witness_bin and calculate_witness_circom.
instance_init(c, m, sanity_check) == vm_init(c, m, sanity_check)

\* calculate_witness_element: the modulus it parses from its decimal string
\* (the 254-bit BN254 modulus, which fills the widest circuit's words).
element_modulus == Pow(radix, MaxN32) - 3

\* E::Fr::from_str of a decimal string: the field element congruent to the
\* number, E being the BN254 engine.
fr_from_str(v) == v % (Pow(radix, MaxN32) - 3)

\* The closure calculate_witness_element maps over the witness.
to_element(w) ==
    fr_from_str(IF w < 0 THEN element_modulus - (-w) ELSE w)

\* A faulty try: the Err is dropped.
try_ignoring(r) == FALSE

\* The ? operator on a VM call's result: an Err returns from the function.
try(r) == r.fault

\* What callers pass as inputs: (name, values) pairs, in order.
In(name, values) == [name |-> name, values |-> values]

InputChoices(c) ==
    { <<In("a", <<3>>), In("b", <<VmPrime(c) - 1>>)>>,
      <<In("a", <<3>>), In("b", <<11>>)>>,
      <<In("b", <<2>>), In("a", <<Pow(radix, c.n32) - 1>>)>>,
      <<In("a", <<3>>), In("x", <<1>>)>>,
      <<In("a", <<2, 1>>)>>,
      <<In("b", <<1>>), In("a", <<Pow(radix, c.n32)>>)>>,
      <<>> }

NoCall == [fn |-> "", inputs |-> <<>>, sanity_check |-> FALSE]
NoLocals == [n32 |-> 0, ii |-> 1, vi |-> 1, j |-> 0, f_arr |-> <<>>,
             w |-> <<>>, witness_size |-> 0, i |-> 0]
NoResult == [kind |-> "none", val |-> <<>>]
NoMemo == [set |-> FALSE, inputs |-> <<>>, sanity_check |-> FALSE,
           res |-> NoResult, other |-> FALSE]
NoCircuit == [kind |-> "one", n32 |-> 1, trap |-> "none"]
NoCodec == [st |-> "off", v |-> 0, width |-> 0, limbs |-> Panicked, back |-> 0]
NoDecoded == [ok |-> FALSE, modulus |-> 0, vector |-> <<>>]
NoSer == [st |-> "off", self |-> new_circom(NoCircuit), build |-> "debug",
          wtns |-> <<>>, res |-> "none", out |-> <<>>, dec |-> NoDecoded]
NoArtifact == [bytes |-> "wasm", imports |-> {}, circuit |-> NoCircuit]
NoLoad == [st |-> "off", fn |-> "", artifact |-> NoArtifact, res |-> NoResult]
NoFlat == [st |-> "off", v |-> <<>>, res |-> Panicked]
NoFile == [st |-> "off", target |-> "", self |-> new_circom(NoCircuit),
           build |-> "debug", wtns |-> <<>>, res |-> "none", out |-> <<>>]
NoGates == [st |-> "off", stream |-> <<>>, pos |-> 0, num |-> 0, i |-> 0,
            name_len |-> 0, res |-> "none"]

VARIABLES
    codec,    \* the codec specification: a value, a width and what the codec made of them
    circuit,  \* the compiled circuit the VM runs
    vm,       \* the VM's state: shared memory, assigned input signals
    wc,       \* the WitnessCalculator's cached fields
    pc,       \* where the current call stands
    call,     \* the current call: function, inputs, sanity_check
    loc,      \* the call's local variables
    result,   \* what the last call returned
    ops,      \* the VM operations the current call has issued, in order
    memo,     \* an earlier calculate_witness call and its result
    ser,      \* the serializer specification: a calculator, a word vector, the writer
    load,     \* the loading specification: an artefact, the constructor, its outcome
    flat,     \* the flat_array specification: a structured input and the flattened output
    file,     \* the file specification: a target file, a word vector, the outcome
    gates     \* the custom-gate specification: a stream, the reader's position, the outcome

vars == <<codec, circuit, vm, wc, pc, call, loc, result, ops, memo, ser,
          load, flat, file, gates>>
mainVars == <<circuit, vm, wc, pc, call, loc, result, ops, memo>>
sideVars == <<load, flat, file, gates>>

\* The calculator's variables while another specification runs.
MainOff ==
    /\ circuit = NoCircuit
    /\ vm = VmFresh(NoCircuit)
    /\ wc = new_circom(NoCircuit)
    /\ pc = "off"
    /\ call = NoCall
    /\ loc = NoLocals
    /\ result = NoResult
    /\ ops = <<>>
    /\ memo = NoMemo

\* The loading, flat_array, file and custom-gate specifications' variables
\* while another specification runs.
SideOff ==
    /\ load = NoLoad
    /\ flat = NoFlat
    /\ file = NoFile
    /\ gates = NoGates

\* ----------------------------------------------- the codec specification
CodecValues ==
    ((-(radix + 1))..MaxValue)
    \cup {Pow(radix, w) + d : w \in 1..MaxN32, d \in (-2)..2}
CodecWidths == 0..MaxN32

InitCodec ==
    \E v \in CodecValues, w \in CodecWidths :
        /\ codec = [st |-> "input", v |-> v, width |-> w,
                    limbs |-> Panicked, back |-> 0]
        /\ MainOff
        /\ SideOff
        /\ ser = NoSer

\* to_array32(&v, width)
Encode ==
    /\ codec.st = "input"
    /\ codec' = [codec EXCEPT !.st = "encoded",
                              !.limbs = to_array32(codec.v, codec.width)]
    /\ UNCHANGED <<mainVars, sideVars, ser>>

\* from_array32(limbs) of the limbs to_array32 returned
Decode ==
    /\ codec.st = "encoded"
    /\ codec.limbs.ok
    /\ codec' = [codec EXCEPT !.st = "decoded",
                              !.back = from_array32(codec.limbs.val)]
    /\ UNCHANGED <<mainVars, sideVars, ser>>

NextCodec == Encode \/ Decode

SpecCodec == InitCodec /\ [][NextCodec]_vars

\* ------------------------------------------------------------ serializer
\* u32 arithmetic: a result past the type's range panics in a debug build
\* and wraps in a release build.
U32(v, build) ==
    IF v < radix THEN Returned(v)
    ELSE IF build = "debug" THEN Panicked
    ELSE Returned(v % radix)

\* `x as u32` of a usize: the low 32 bits.
as_u32(x) == x % radix

\* write_u32::<LittleEndian> / write_u64::<LittleEndian>: n bytes, the least
\* significant first.
le_bytes(v, n) == [k \in 1..n |-> (v \div Pow(ByteRadix, k - 1)) % ByteRadix]

\* A faulty write_u32: the most significant byte first.
write_u32_be(v) ==
    [k \in 1..BytesPerWord |-> le_bytes(v, BytesPerWord)[BytesPerWord + 1 - k]]

write_u32(v) == le_bytes(v, BytesPerWord)
write_u64(v) == le_bytes(v, 2 * BytesPerWord)

\* BigInt::to_bytes_le: the sign and the magnitude's bytes, least significant
\* first, without leading zero bytes (one zero byte for zero).
RECURSIVE magnitude_bytes(_)
magnitude_bytes(v) ==
    IF v < ByteRadix THEN <<v>>
    ELSE <<v % ByteRadix>> \o magnitude_bytes(v \div ByteRadix)

to_bytes_le(v) ==
    [sign |-> IF v > 0 THEN "Plus" ELSE IF v = 0 THEN "NoSign" ELSE "Minus",
     bytes |-> magnitude_bytes(IF v < 0 THEN -v ELSE v)]

\* The magic bytes "wtns".
wtns_header == <<119, 116, 110, 115>>

\* for i in 0..wtns.len() { write_u32(wtns[i]) }
RECURSIVE write_words(_, _)
write_words(wtns, i) ==
    IF i > Len(wtns) THEN <<>>
    ELSE write_u32(wtns[i]) \o write_words(wtns, i + 1)

Saved(res, out) == [res |-> res, out |-> out]

\* The part of save_witness_from_bin_writer after the modulus is validated.
save_values(n32, field_size, wtns, build, out) ==
    IF n32 = 0 THEN Saved("panic", out)
    ELSE LET wtns_size == as_u32(Len(wtns)) \div n32
             out4 == out \o write_u32(wtns_size) \o write_u32(2)
             sec_size == U32(wtns_size * field_size, build)
         IN IF ~sec_size.ok THEN Saved("panic", out4)
            ELSE Saved("ok", out4 \o write_u64(sec_size.val)
                                  \o write_words(wtns, 1))

\* The validation of the modulus and its bytes.
save_prime(self, field_size, wtns, build, out) ==
    LET p == to_bytes_le(self.prime)
    IN IF p.sign # "Plus" THEN Saved("err", out)
       ELSE IF as_u32(Len(p.bytes)) # field_size THEN Saved("err", out)
       ELSE save_values(self.n32, field_size, wtns, build, out \o p.bytes)

\* save_witness_from_bin_writer on a writer that takes every byte: the
\* result and the bytes the writer holds when the function returns or panics.
save_witness_from_bin_writer(self, wtns, build) ==
    LET n32 == self.n32
        out1 == wtns_header \o write_u32(self.circom_version)
                    \o write_u32(2) \o write_u32(1)
        n32x4 == U32(n32 * 4, build)
        sec_size == IF n32x4.ok THEN U32(n32x4.val + 8, build) ELSE Panicked
    IN IF ~sec_size.ok THEN Saved("panic", out1)
       ELSE save_prime(self, n32x4.val, wtns, build,
                       out1 \o write_u64(sec_size.val) \o write_u32(n32x4.val))

\* ------------------------------------------- the calculator specification
\* Init: a circuit was loaded by from_module (new_circom ran).
Init ==
    /\ codec = NoCodec
    /\ ser = NoSer
    /\ SideOff
    /\ circuit \in Circuits
    /\ vm = new_circom_vm(circuit)
    /\ wc = new_circom(circuit)
    /\ pc = "idle"
    /\ call = NoCall
    /\ loc = NoLocals
    /\ result = NoResult
    /\ ops = <<>>
    /\ memo = NoMemo

Op(op, name, idx, val, r) ==
    [op |-> op, name |-> name, idx |-> idx, val |-> val, fault |-> r.fault]

\* The call returns `res` to its caller.
Return(res) ==
    /\ pc' = "idle"
    /\ result' = res
    /\ loc' = NoLocals

Err == [kind |-> "err", val |-> <<>>]
Panic == [kind |-> "panic", val |-> <<>>]
Ok(v) == [kind |-> "ok", val |-> v]

\* A faulty VmCall: the error is noticed only when the call ends.
VmCall_deferring(r, op, nextPc, nextLoc) ==
    /\ vm' = r.vm
    /\ ops' = Append(ops, op)
    /\ pc' = nextPc
    /\ loc' = nextLoc
    /\ UNCHANGED <<sideVars, codec, ser, circuit, wc, call, memo, result>>

\* A VM call at the current position: the VM moves, the operation is logged,
\* and ? returns Err from the whole call when the error callback fired;
\* otherwise the call goes on at `nextPc` with locals `nextLoc`.
VmCall(r, op, nextPc, nextLoc) ==
    /\ vm' = r.vm
    /\ ops' = Append(ops, op)
    /\ IF try(r) THEN Return(Err)
       ELSE /\ pc' = nextPc
            /\ loc' = nextLoc
            /\ UNCHANGED result
    /\ UNCHANGED <<sideVars, codec, ser, circuit, wc, call, memo>>

Functions ==
    {"calculate_witness", "calculate_witness_bin", "calculate_witness_element"}

\* The remembered call was calculate_witness with these arguments.
SameCall(m, fn, inputs, sanity_check) ==
    /\ fn = "calculate_witness"
    /\ m.inputs = inputs
    /\ m.sanity_check = sanity_check

\* A caller invokes calculate_witness, calculate_witness_bin or
\* calculate_witness_element (which starts by calling calculate_witness).
Call ==
    /\ pc = "idle"
    /\ \E fn \in Functions, inputs \in InputChoices(circuit),
          sanity_check \in BOOLEAN :
          /\ call' = [fn |-> fn, inputs |-> inputs, sanity_check |-> sanity_check]
          /\ memo' = IF memo.set /\ ~SameCall(memo, fn, inputs, sanity_check)
                     THEN [memo EXCEPT !.other = TRUE] ELSE memo
    /\ pc' = "init1"
    /\ loc' = NoLocals
    /\ result' = NoResult
    /\ ops' = <<>>
    /\ ser' = NoSer
    /\ UNCHANGED <<sideVars, codec, circuit, vm, wc>>

\* A faulty Init1: the call reads the modulus again from whatever the shared
\* memory holds.
Init1_rediscovering ==
    /\ pc = "init1"
    /\ LET r == instance_init(circuit, vm, call.sanity_check)
       IN /\ vm' = r.vm
          /\ ops' = Append(ops, Op("init", "", 0, 0, r))
          /\ wc' = [wc EXCEPT
                       !.prime = from_array32(prime_arr(circuit, vm, wc.n32))]
          /\ IF try(r) THEN Return(Err)
             ELSE /\ pc' = "init2"
                  /\ UNCHANGED <<loc, result>>
    /\ UNCHANGED <<sideVars, codec, ser, circuit, call, memo>>

\* calculate_witness / calculate_witness_bin: self.instance.init(sanity_check)?
Init1 ==
    /\ pc = "init1"
    /\ LET r == instance_init(circuit, vm, call.sanity_check)
       IN VmCall(r, Op("init", "", 0, 0, r), "init2", loc)

\* calculate_witness_circom: self.instance.init(sanity_check)?
Init2 ==
    /\ pc = "init2"
    /\ LET r == instance_init(circuit, vm, call.sanity_check)
       IN VmCall(r, Op("init", "", 0, 0, r), "n32", loc)

\* let n32 = self.instance.get_field_num_len32()?
GetN32 ==
    /\ pc = "n32"
    /\ LET r == vm_get_field_num_len32(circuit, vm)
       IN VmCall(r, Op("getFieldNumLen32", "", 0, 0, r), "value",
                 [loc EXCEPT !.n32 = r.ret])

\* A faulty NextValue: the value is reduced modulo the modulus before it is
\* encoded.
NextValue_reducing ==
    /\ pc = "value"
    /\ IF loc.ii > Len(call.inputs)
       THEN /\ pc' = "wsize"
            /\ UNCHANGED <<loc, result>>
       ELSE IF loc.vi > Len(call.inputs[loc.ii].values)
       THEN /\ loc' = [loc EXCEPT !.ii = loc.ii + 1, !.vi = 1]
            /\ UNCHANGED <<pc, result>>
       ELSE LET f == to_array32(call.inputs[loc.ii].values[loc.vi] % wc.prime,
                               loc.n32)
            IN IF f.ok
               THEN /\ loc' = [loc EXCEPT !.f_arr = f.val, !.j = 0]
                    /\ pc' = IF loc.n32 = 0 THEN "set_input" ELSE "write"
                    /\ UNCHANGED result
               ELSE Return(Panic)
    /\ UNCHANGED <<sideVars, codec, ser, circuit, vm, wc, call, ops, memo>>

\* The two for loops over the inputs and f_arr = to_array32(&value, n32),
\* which panics on a value the limbs cannot hold.
NextValue ==
    /\ pc = "value"
    /\ IF loc.ii > Len(call.inputs)
       THEN /\ pc' = "wsize"
            /\ UNCHANGED <<loc, result>>
       ELSE IF loc.vi > Len(call.inputs[loc.ii].values)
       THEN /\ loc' = [loc EXCEPT !.ii = loc.ii + 1, !.vi = 1]
            /\ UNCHANGED <<pc, result>>
       ELSE LET f == to_array32(call.inputs[loc.ii].values[loc.vi], loc.n32)
            IN IF f.ok
               THEN /\ loc' = [loc EXCEPT !.f_arr = f.val, !.j = 0]
                    /\ pc' = IF loc.n32 = 0 THEN "set_input" ELSE "write"
                    /\ UNCHANGED result
               ELSE Return(Panic)
    /\ UNCHANGED <<sideVars, codec, ser, circuit, vm, wc, call, ops, memo>>

\* write_shared_rw_memory(j, f_arr[n32 - 1 - j])?
WriteWord ==
    /\ pc = "write"
    /\ LET word == write_word(loc.f_arr, loc.n32, loc.j)
           r == vm_write_shared_rw_memory(circuit, vm, loc.j, word)
       IN VmCall(r, Op("writeSharedRWMemory", "", loc.j, word, r),
                 IF loc.j + 1 = loc.n32 THEN "set_input" ELSE "write",
                 [loc EXCEPT !.j = loc.j + 1])

\* A faulty SetInputSignal: the instance is initialised again after every
\* value it has been given.
SetInputSignal_reinitializing ==
    /\ pc = "set_input"
    /\ LET name == call.inputs[loc.ii].name
           h == fnv(name)
           r == vm_set_input_signal(circuit, vm, h[1], h[2], loc.vi - 1)
       IN VmCall(r, Op("setInputSignal", name, loc.vi - 1, 0, r), "init2",
                 [loc EXCEPT !.vi = loc.vi + 1])

\* set_input_signal(msb, lsb, i as u32)?
SetInputSignal ==
    /\ pc = "set_input"
    /\ LET name == call.inputs[loc.ii].name
           h == fnv(name)
           r == vm_set_input_signal(circuit, vm, h[1], h[2], loc.vi - 1)
       IN VmCall(r, Op("setInputSignal", name, loc.vi - 1, 0, r), "value",
                 [loc EXCEPT !.vi = loc.vi + 1])

\* A faulty CircomDone: calculate_witness_bin loses the last word.
CircomDone_truncating(w) ==
    IF call.fn = "calculate_witness_bin"
    THEN Return(Ok(SubSeq(w, 1, Len(w) - 1)))
    ELSE /\ pc' = "n32b"
         /\ loc' = [loc EXCEPT !.w = w]
         /\ UNCHANGED result

\* calculate_witness_circom returns Ok(w): calculate_witness_bin returns it,
\* calculate_witness goes on with it as wtns_u32.
CircomDone(w) ==
    IF call.fn = "calculate_witness_bin"
    THEN Return(Ok(w))
    ELSE /\ pc' = "n32b"
         /\ loc' = [loc EXCEPT !.w = w]
         /\ UNCHANGED result

\* let witness_size = self.instance.get_witness_size()? (calculate_witness_circom)
GetWitnessSize ==
    /\ pc = "wsize"
    /\ LET r == vm_get_witness_size(circuit, vm)
       IN /\ vm' = r.vm
          /\ ops' = Append(ops, Op("getWitnessSize", "", 0, 0, r))
          /\ IF try(r) THEN Return(Err)
             ELSE IF r.ret = 0 THEN CircomDone(<<>>)
             ELSE /\ pc' = "get_witness"
                  /\ loc' = [loc EXCEPT !.witness_size = r.ret, !.i = 0, !.w = <<>>]
                  /\ UNCHANGED result
    /\ UNCHANGED <<sideVars, codec, ser, circuit, wc, call, memo>>

\* self.instance.get_witness(i)?
GetWitness ==
    /\ pc = "get_witness"
    /\ LET r == vm_get_witness(circuit, vm, loc.i)
       IN VmCall(r, Op("getWitness", "", loc.i, 0, r),
                 "read", [loc EXCEPT !.j = 0])

\* w.push(self.instance.read_shared_rw_memory(j)?)
ReadWord ==
    /\ pc = "read"
    /\ LET r == vm_read_shared_rw_memory(circuit, vm, loc.j)
           w == Append(loc.w, r.ret)
       IN /\ vm' = r.vm
          /\ ops' = Append(ops, Op("readSharedRWMemory", "", loc.j, r.ret, r))
          /\ IF try(r) THEN Return(Err)
             ELSE IF loc.j + 1 < loc.n32
             THEN /\ pc' = "read"
                  /\ loc' = [loc EXCEPT !.w = w, !.j = loc.j + 1]
                  /\ UNCHANGED result
             ELSE IF loc.i + 1 < loc.witness_size
             THEN /\ pc' = "get_witness"
                  /\ loc' = [loc EXCEPT !.w = w, !.i = loc.i + 1]
                  /\ UNCHANGED result
             ELSE CircomDone(w)
    /\ UNCHANGED <<sideVars, codec, ser, circuit, wc, call, memo>>

\* calculate_witness: let n32 = self.instance.get_field_num_len32()?
GetN32Again ==
    /\ pc = "n32b"
    /\ LET r == vm_get_field_num_len32(circuit, vm)
       IN VmCall(r, Op("getFieldNumLen32", "", 0, 0, r), "wsize2",
                 [loc EXCEPT !.n32 = r.ret])

\* calculate_witness: let witness_size = get_witness_size()?, then the loop
\* that reassembles wo from wtns_u32, and Ok(wo); calculate_witness_element
\* maps the vector to field elements.
Reassemble ==
    /\ pc = "wsize2"
    /\ LET r == vm_get_witness_size(circuit, vm)
       IN /\ vm' = r.vm
          /\ ops' = Append(ops, Op("getWitnessSize", "", 0, 0, r))
          /\ IF try(r) THEN Return(Err)
             ELSE LET wo == build_wo(loc.w, loc.n32, r.ret, 0)
                  IN IF call.fn = "calculate_witness_element"
                     THEN Return(Ok([k \in 1..Len(wo) |-> to_element(wo[k])]))
                     ELSE Return(Ok(wo))
    /\ UNCHANGED <<sideVars, codec, ser, circuit, wc, call, memo>>

\* An observer keeps a finished calculate_witness call and its result, to
\* compare a later call with the same arguments against it.
Remember ==
    /\ pc = "idle"
    /\ call.fn = "calculate_witness"
    /\ result.kind # "none"
    /\ ~memo.set
    /\ memo' = [set |-> TRUE, inputs |-> call.inputs,
                sanity_check |-> call.sanity_check, res |-> result,
                other |-> FALSE]
    /\ UNCHANGED <<sideVars, codec, ser, circuit, vm, wc, pc, call, loc, result, ops>>

\* The caller hands the vector calculate_witness_bin returned to
\* save_witness_from_bin_writer, with a writer that takes every byte.
SaveResult ==
    /\ pc = "idle"
    /\ call.fn = "calculate_witness_bin"
    /\ result.kind = "ok"
    /\ ser.st = "off"
    /\ \E build \in {"debug", "release"} :
          LET r == save_witness_from_bin_writer(wc, result.val, build)
          IN ser' = [st |-> "saved", self |-> wc, build |-> build,
                     wtns |-> result.val, res |-> r.res, out |-> r.out,
                     dec |-> NoDecoded]
    /\ UNCHANGED <<mainVars, sideVars, codec>>

Next ==
    \/ Call
    \/ Init1
    \/ Init2
    \/ GetN32
    \/ NextValue
    \/ WriteWord
    \/ SetInputSignal
    \/ GetWitnessSize
    \/ GetWitness
    \/ ReadWord
    \/ GetN32Again
    \/ Reassemble
    \/ Remember
    \/ SaveResult

Spec == Init /\ [][Next]_vars

\* ------------------------------------------------------ reading a file back
\* The decoder is not part of witness_calculator.rs: it follows the section
\* layout of the canonical witness file.
RECURSIVE rd(_, _, _)
rd(b, pos, n) ==
    IF n = 0 THEN 0 ELSE b[pos + 1] + ByteRadix * rd(b, pos + 1, n - 1)

HeaderBytes == 4 + (3 * BytesPerWord) + (2 * BytesPerWord) + BytesPerWord

decode_values(b, fbw, at) ==
    LET count == rd(b, at, BytesPerWord)
        id2 == rd(b, at + BytesPerWord, BytesPerWord)
        size2 == rd(b, at + 2 * BytesPerWord, 2 * BytesPerWord)
        base == at + 4 * BytesPerWord
    IN IF id2 # 2 \/ size2 # count * fbw \/ Len(b) # base + size2
       THEN NoDecoded
       ELSE [ok |-> TRUE, modulus |-> rd(b, HeaderBytes, fbw),
             vector |-> [i \in 1..count |-> rd(b, base + (i - 1) * fbw, fbw)]]

decode(b) ==
    IF Len(b) < HeaderBytes THEN NoDecoded
    ELSE IF SubSeq(b, 1, 4) # wtns_header THEN NoDecoded
    ELSE LET nsec == rd(b, 4 + BytesPerWord, BytesPerWord)
             id1 == rd(b, 4 + 2 * BytesPerWord, BytesPerWord)
             size1 == rd(b, 4 + 3 * BytesPerWord, 2 * BytesPerWord)
             fbw == rd(b, 4 + 5 * BytesPerWord, BytesPerWord)
         IN IF nsec # 2 \/ id1 # 1 \/ size1 # fbw + 2 * BytesPerWord
               \/ fbw % BytesPerWord # 0
               \/ Len(b) < HeaderBytes + fbw + 4 * BytesPerWord
            THEN NoDecoded
            ELSE decode_values(b, fbw, HeaderBytes + fbw)

\* ------------------------------------------- the serializer specification
\* The calculators save is called on: a word width, a version and a modulus
\* that fills its words, has zero top bytes, or is zero (a VM that reports no
\* modulus).
SerPrimes(n32) == {0, ByteRadix + 2, Pow(radix, n32) - 3}

SerSelves ==
    UNION {[n32 : {n}, prime : SerPrimes(n), n64 : {1}, circom_version : {1, 2}] :
              n \in 1..MaxN32}

SerWords == {0, radix - 4, radix - 1}

\* The lengths of the word vectors: the short ones, those from which
\* wtns_size * field_size passes a u32, and those a u32 no longer holds.
SerLengths ==
    (0..(2 * MaxN32 + 1))
    \cup {t + d : t \in {radix \div BytesPerWord, radix}, d \in 0..MaxExtraWords}

\* A word vector whose words repeat three chosen words.
SerVectors ==
    {[k \in 1..len |-> c[((k - 1) % 3) + 1]] :
        len \in SerLengths, c \in [1..3 -> SerWords]}

InitSave ==
    /\ \E self \in SerSelves, wtns \in SerVectors, build \in {"debug", "release"} :
          ser = [st |-> "input", self |-> self, build |-> build, wtns |-> wtns,
                 res |-> "none", out |-> <<>>, dec |-> NoDecoded]
    /\ codec = NoCodec
    /\ MainOff
    /\ SideOff

\* save_witness_from_bin_writer(writer, &wtns)
SaveWitness ==
    /\ ser.st = "input"
    /\ LET r == save_witness_from_bin_writer(ser.self, ser.wtns, ser.build)
       IN ser' = [ser EXCEPT !.st = "saved", !.res = r.res, !.out = r.out]
    /\ UNCHANGED <<mainVars, sideVars, codec>>

\* A reader decodes the bytes a successful save left in the writer.
ReadBack ==
    /\ ser.st = "saved"
    /\ ser.res = "ok"
    /\ ser' = [ser EXCEPT !.st = "read", !.dec = decode(ser.out)]
    /\ UNCHANGED <<mainVars, sideVars, codec>>

NextSave == SaveWitness \/ ReadBack

SpecSave == InitSave /\ [][NextSave]_vars

\* --------------------------------------------------- the file specification
\* The bytes a BufWriter holds before it writes them to the file
\* (BufWriter::new's default capacity, scaled as the bytes are).
BufCapacity == 64

\* The target of save_witness_to_bin_file: a file that can be opened and
\* written, a path that cannot be opened, a file that opens and then fails
\* every write (a full disk).
Targets == {"writable", "cannot_open", "cannot_write"}

\* save_witness_to_bin_file: open(filename).expect("unable to open."), then
\* save_witness_from_bin_writer on a BufWriter around the file. The BufWriter
\* writes to the file when a write no longer fits its buffer, which is where
\* a failing file's error is returned through ?, and once more when it is
\* dropped, where the error is discarded. `out` is what the file holds.
save_witness_to_bin_file(self, target, w, build) ==
    IF target = "cannot_open" THEN Saved("panic", <<>>)
    ELSE LET r == save_witness_from_bin_writer(self, w, build)
         IN IF target = "writable" THEN r
            ELSE IF Len(r.out) > BufCapacity THEN Saved("io_err", <<>>)
            ELSE Saved(r.res, <<>>)

InitFile ==
    /\ \E self \in SerSelves, wtns \in SerVectors, target \in Targets,
          build \in {"debug", "release"} :
          file = [st |-> "input", target |-> target, self |-> self,
                  build |-> build, wtns |-> wtns, res |-> "none", out |-> <<>>]
    /\ load = NoLoad
    /\ flat = NoFlat
    /\ gates = NoGates
    /\ codec = NoCodec
    /\ ser = NoSer
    /\ MainOff

\* save_witness_to_bin_file(filename, &w)
SaveToFile ==
    /\ file.st = "input"
    /\ LET r == save_witness_to_bin_file(file.self, file.target, file.wtns,
                                         file.build)
       IN file' = [file EXCEPT !.st = "saved", !.res = r.res, !.out = r.out]
    /\ UNCHANGED <<mainVars, codec, ser, load, flat, gates>>

NextFile == SaveToFile

SpecFile == InitFile /\ [][NextFile]_vars

\* ----------------------------------------------- the loading specification
\* The host functions from_module registers under "runtime".
RegisteredImports ==
    {"error", "logSetSignal", "logGetSignal", "logFinishComponent",
     "logStartComponent", "log", "exceptionHandler", "showSharedRWMemory",
     "printErrorMessage", "writeBufferMessage"}

\* Host functions an artefact may import that from_module does not register.
UnregisteredImports == {"abort", "getMessageChar"}

\* The artefact files: well-formed bytecode of a circuit or not, and the
\* host functions the module imports.
Artifacts ==
    [bytes : {"wasm", "malformed"},
     imports : {S \cup U : S \in {RegisteredImports, {"error"}, {}},
                           U \in SUBSET UnregisteredImports},
     circuit : Circuits \cup WideCircuits]

\* Instance::new(&module, &import_object)?: an import the object does not
\* hold is an error, which ? returns.
\* from_module: the calculator new_circom builds from the instance.
from_module(artifact) ==
    IF ~(artifact.imports \subseteq RegisteredImports) THEN Err
    ELSE Ok(new_circom(artifact.circuit))

\* from_file: Module::from_file(&store, path).expect("correct wtns file"),
\* then from_module.
from_file(artifact) ==
    IF artifact.bytes # "wasm" THEN Panic
    ELSE from_module(artifact)

\* WitnessCalculator::new(path)
WitnessCalculator_new(artifact) == from_file(artifact)

Constructors == {"new", "from_file", "from_module"}

\* from_module takes a compiled Module: its bytecode was well-formed.
InitLoad ==
    /\ \E fn \in Constructors, artifact \in Artifacts :
          /\ fn = "from_module" => artifact.bytes = "wasm"
          /\ load = [st |-> "input", fn |-> fn, artifact |-> artifact,
                     res |-> NoResult]
    /\ flat = NoFlat
    /\ file = NoFile
    /\ gates = NoGates
    /\ codec = NoCodec
    /\ ser = NoSer
    /\ MainOff

\* A caller constructs a calculator from the artefact.
Load ==
    /\ load.st = "input"
    /\ load' = [load EXCEPT
                   !.st = "done",
                   !.res = IF load.fn = "new"
                           THEN WitnessCalculator_new(load.artifact)
                           ELSE IF load.fn = "from_file"
                           THEN from_file(load.artifact)
                           ELSE from_module(load.artifact)]
    /\ UNCHANGED <<mainVars, codec, ser, flat, file, gates>>

NextLoad == Load

SpecLoad == InitLoad /\ [][NextLoad]_vars

\* -------------------------------------------------------------- flat_array
\* serde_json::Value: Null, Bool, Number, String and Array (an Object is
\* handled as Null is). A Number is an integer or has a fractional part.
JsonNull == [t |-> "null", b |-> FALSE, n |-> 0, frac |-> FALSE, s |-> <<>>,
             items |-> <<>>]
JsonBool(b) == [JsonNull EXCEPT !.t = "bool", !.b = b]
JsonNumber(n, frac) == [JsonNull EXCEPT !.t = "number", !.n = n, !.frac = frac]
JsonString(s) == [JsonNull EXCEPT !.t = "string", !.s = s]
JsonArray(items) == [JsonNull EXCEPT !.t = "array", !.items = items]

DigitChars == <<"0", "1", "2", "3", "4", "5", "6", "7", "8", "9">>
IsDigit(c) == \E d \in 1..Len(DigitChars) : DigitChars[d] = c
DigitValue(c) == (CHOOSE d \in 1..Len(DigitChars) : DigitChars[d] = c) - 1

\* The decimal digits of a natural number, and of an integer.
RECURSIVE NaturalToString(_)
NaturalToString(n) ==
    IF n < Len(DigitChars) THEN <<DigitChars[n + 1]>>
    ELSE NaturalToString(n \div Len(DigitChars))
         \o <<DigitChars[(n % Len(DigitChars)) + 1]>>

IntegerToString(n) ==
    IF n < 0 THEN <<"-">> \o NaturalToString(-n) ELSE NaturalToString(n)

\* Number's to_string: the integer's digits, or a decimal with a fraction.
Number_to_string(v) ==
    IntegerToString(v.n) \o (IF v.frac THEN <<".", "5">> ELSE <<>>)

\* BigUint::from_str: an optional "+", then one digit or more.
RECURSIVE parse_digits(_, _, _)
parse_digits(s, k, acc) ==
    IF k > Len(s) THEN Returned(acc)
    ELSE IF ~IsDigit(s[k]) THEN Panicked
    ELSE parse_digits(s, k + 1, acc * Len(DigitChars) + DigitValue(s[k]))

BigUint_from_str(s) ==
    LET body == IF s # <<>> /\ s[1] = "+" /\ ~(Len(s) > 1 /\ s[2] = "+")
                THEN Tail(s) ELSE s
    IN IF body = <<>> THEN Panicked ELSE parse_digits(body, 1, 0)

\* BigInt::from_str(..).unwrap(): an optional sign, then the digits; anything
\* else is an Err and unwrap panics.
BigInt_from_str(s) ==
    LET minus == s # <<>> /\ s[1] = "-"
        body == IF minus /\ ~(Len(s) > 1 /\ s[2] = "+") THEN Tail(s) ELSE s
        bu == BigUint_from_str(body)
    IN IF ~bu.ok THEN Panicked
       ELSE Returned(IF minus THEN -bu.val ELSE bu.val)

\* out.push(..) when the conversion returned a number.
push(out, r) == IF r.ok THEN Returned(Append(out, r.val)) ELSE Panicked

RECURSIVE fill_array(_, _)
RECURSIVE fill_items(_, _, _)
RECURSIVE fill_items_backwards(_, _, _)

\* A faulty fill_items: the array is walked from its last item.
fill_items_backwards(out, inner, k) ==
    IF k > Len(inner) THEN Returned(out)
    ELSE LET r == fill_array(out, inner[Len(inner) + 1 - k])
         IN IF r.ok THEN fill_items_backwards(r.val, inner, k + 1) ELSE Panicked

\* for v2 in inner.iter() { fill_array(out, v2) }
fill_items(out, inner, k) ==
    IF k > Len(inner) THEN Returned(out)
    ELSE LET r == fill_array(out, inner[k])
         IN IF r.ok THEN fill_items(r.val, inner, k + 1) ELSE Panicked

\* fill_array: the match on the value; what it returns is `out` afterwards.
fill_array(out, value) ==
    CASE value.t = "array" -> fill_items(out, value.items, 1)
      [] value.t = "bool" -> push(out, Returned(IF value.b THEN 1 ELSE 0))
      [] value.t = "string" -> push(out, BigInt_from_str(value.s))
      [] value.t = "number" -> push(out, BigInt_from_str(Number_to_string(value)))
      [] OTHER -> Panicked

\* flat_array(v): for v2 in v.iter() { fill_array(&mut result, v2) }
flat_array(v) == fill_items(<<>>, v, 1)

\* ------------------------------------------- the flat_array specification
\* Longest array of a structured input.
MaxItems == 2

SeqsUpTo(S, n) == UNION {[1..k -> S] : k \in 0..n}

\* The leaves of the inputs: booleans, decimal strings, a string that is no
\* number, an integer, a number with a fraction, null.
JsonLeaves ==
    {JsonBool(TRUE), JsonBool(FALSE), JsonString(<<"1", "2">>),
     JsonString(<<"-", "3">>), JsonString(<<"1", "x">>), JsonNumber(7, FALSE),
     JsonNumber(1, TRUE), JsonNull}

\* The inputs with the leaves x and y: vectors of leaves and arrays of
\* leaves, and vectors of one array of those.
JsonInputs(x, y) ==
    LET items == {x, y} \cup {JsonArray(a) : a \in SeqsUpTo({x, y}, MaxItems)}
    IN SeqsUpTo(items, MaxItems)
       \cup {<<JsonArray(a)>> : a \in SeqsUpTo(items, MaxItems)}

InitFlat ==
    /\ \E x \in JsonLeaves, y \in JsonLeaves : \E v \in JsonInputs(x, y) :
          flat = [st |-> "input", v |-> v, res |-> Panicked]
    /\ load = NoLoad
    /\ file = NoFile
    /\ gates = NoGates
    /\ codec = NoCodec
    /\ ser = NoSer
    /\ MainOff

\* flat_array(&v)
Flatten ==
    /\ flat.st = "input"
    /\ flat' = [flat EXCEPT !.st = "done", !.res = flat_array(flat.v)]
    /\ UNCHANGED <<mainVars, codec, ser, load, file, gates>>

NextFlat == Flatten

SpecFlat == InitFlat /\ [][NextFlat]_vars

\* ---------------------------------------------------------------------
\* CustomGates::read_custom_gates_list over a finite stream of bytes.

\* reader.read_u32::<LittleEndian>(): four bytes from the reader's position,
\* an error when the stream ends before them.
read_u32(stream, pos) ==
    IF pos + BytesPerWord > Len(stream)
    THEN [ok |-> FALSE, val |-> 0, pos |-> pos]
    ELSE [ok |-> TRUE, val |-> rd(stream, pos, BytesPerWord),
          pos |-> pos + BytesPerWord]

\* read_field: the bytes of one field element, an error when the stream ends
\* before them.
read_field(stream, pos) ==
    LET width == 2 * BytesPerWord
    IN IF pos + width > Len(stream) THEN [ok |-> FALSE, pos |-> pos]
       ELSE [ok |-> TRUE, pos |-> pos + width]

\* for _i in 0..num_parameters { parameters.push(read_field(&mut reader)?) }
RECURSIVE read_parameters(_, _, _)
read_parameters(stream, pos, n) ==
    IF n = 0 THEN [ok |-> TRUE, pos |-> pos]
    ELSE LET f == read_field(stream, pos)
         IN IF ~f.ok THEN f ELSE read_parameters(stream, f.pos, n - 1)

\* let name_buf = [1u8; 1]: the byte read_to_string tests; nothing assigns it.
name_buf == 1

GateStopped(g, res) == [g EXCEPT !.st = "stopped", !.res = res]

\* The rest of a gate once read_to_string has returned: num_parameters, the
\* parameters, custom_gates.push, then the next gate or Ok(custom_gates).
after_name(g) ==
    LET n == read_u32(g.stream, g.pos)
        ps == read_parameters(g.stream, n.pos, n.val)
    IN IF ~n.ok \/ ~ps.ok THEN GateStopped(g, "err")
       ELSE IF g.i + 1 = g.num THEN GateStopped([g EXCEPT !.pos = ps.pos], "ok")
       ELSE [g EXCEPT !.pos = ps.pos, !.i = g.i + 1, !.name_len = 0]

\* One custom gate as the format lays it out: the template name, its
\* terminator, the number of parameters and the parameters.
GateBytes(name, nparams) ==
    name \o <<0>> \o write_u32(nparams)
         \o [k \in 1..(nparams * 2 * BytesPerWord) |-> 0]

\* Streams that hold a whole custom-gate list.
WellFormedStreams ==
    { write_u32(0),
      write_u32(1) \o GateBytes(<<1, 2>>, 0),
      write_u32(1) \o GateBytes(<<1>>, 1),
      write_u32(2) \o GateBytes(<<2>>, 0) \o GateBytes(<<1, 1>>, 1) }

\* The finite streams: every short run of bytes and the well-formed lists.
GateStreams == SeqsUpTo(0..(ByteRadix - 1), MaxStream) \cup WellFormedStreams

InitGates ==
    /\ \E stream \in GateStreams :
          gates = [NoGates EXCEPT !.st = "start", !.stream = stream]
    /\ load = NoLoad
    /\ flat = NoFlat
    /\ file = NoFile
    /\ codec = NoCodec
    /\ ser = NoSer
    /\ MainOff

\* let num = reader.read_u32::<LittleEndian>()?; the for loop over the gates
\* is entered when num > 0, and Ok(custom_gates) is returned otherwise.
ReadNum ==
    /\ gates.st = "start"
    /\ LET n == read_u32(gates.stream, gates.pos)
       IN gates' = IF ~n.ok THEN GateStopped(gates, "err")
                   ELSE IF n.val = 0
                   THEN GateStopped([gates EXCEPT !.pos = n.pos], "ok")
                   ELSE [gates EXCEPT !.st = "name", !.pos = n.pos,
                                      !.num = n.val, !.i = 0, !.name_len = 0]
    /\ UNCHANGED <<mainVars, codec, ser, load, flat, file>>

\* One turn of read_to_string's loop: name_buf[0] is pushed onto buf when it
\* is not zero, and the loop is left when it is zero. The reader is not
\* read. buf grows by one byte a turn; once it holds MaxNameBytes bytes the
\* allocator has no more to give and the push aborts the process.
NameLoop ==
    /\ gates.st = "name"
    /\ gates' = IF name_buf # 0
                THEN IF gates.name_len = MaxNameBytes
                     THEN GateStopped(gates, "abort")
                     ELSE [gates EXCEPT !.name_len = gates.name_len + 1]
                ELSE after_name(gates)
    /\ UNCHANGED <<mainVars, codec, ser, load, flat, file>>

NextGates == ReadNum \/ NameLoop

SpecGates == InitGates /\ [][NextGates]_vars

\* ------------------------------------------------------------ C1, C2
InRange(v, width) == 0 <= v /\ v < Pow(radix, width)

\* The value of a limb array with index 0 most significant, as a sum.
RECURSIVE LimbSum(_, _)
LimbSum(arr, k) ==
    IF k > Len(arr) THEN 0
    ELSE arr[k] * Pow(radix, Len(arr) - k) + LimbSum(arr, k + 1)

\* C1: for every width and every v with 0 <= v < 2^(32*width), to_array32
\* returns exactly width limbs, each a 32-bit word, index 0 most significant,
\* and from_array32 of them is v again.
C1_LimbCodecInverse ==
    (codec.st # "input" /\ InRange(codec.v, codec.width)) =>
        /\ codec.limbs.ok
        /\ Len(codec.limbs.val) = codec.width
        /\ \A k \in 1..codec.width : codec.limbs.val[k] \in 0..(radix - 1)
        /\ LimbSum(codec.limbs.val, 1) = codec.v
        /\ codec.st = "decoded" => codec.back = codec.v

\* C1's case: a value of two significant limbs went through both directions.
C1_Witness ==
    /\ codec.st = "decoded"
    /\ codec.width = 2
    /\ codec.v >= radix
    /\ codec.v % radix # codec.v \div radix
    /\ InRange(codec.v, codec.width)

\* C2: encoding a value v >= 2^(32*width) into width limbs fails (the call
\* panics); it never returns a limb array, truncated or not.
C2_OverflowFails ==
    (codec.st # "input" /\ codec.v >= Pow(radix, codec.width)) =>
        ~codec.limbs.ok

\* C2's case: a value one limb too wide for a non-empty array was encoded.
C2_Witness ==
    /\ codec.st = "encoded"
    /\ codec.width = 1
    /\ codec.v >= radix
    /\ ~codec.limbs.ok

\* ------------------------------------------------------------ C3 .. C7
Idle == pc = "idle" /\ result.kind # "none"

FaultIn(log) == \E p \in 1..Len(log) : log[p].fault

\* Where witness element i (1-based) of the multiplier echoes an input.
EchoIndex(name) == IF name = "a" THEN 3 ELSE 4

\* The integer the VM's little-endian slots hold, by the words the call read
\* from shared memory after operation p of the log (its getWitness(i)).
RECURSIVE ReadValue(_, _, _, _)
ReadValue(log, p, n32, j) ==
    IF j >= n32 THEN 0
    ELSE log[p + 1 + j].val * Pow(radix, j) + ReadValue(log, p, n32, j + 1)

GetWitnessAt(log, i) ==
    CHOOSE p \in 1..Len(log) : log[p].op = "getWitness" /\ log[p].idx = i

\* C3: an input's limb k is written to VM slot width-1-k, the modulus and the
\* witness are read back with slot j going to limb width-1-j, and a value
\* written and read back through the bridge is unchanged.
C3_ByteOrderBridge ==
    /\ pc = "set_input" =>
         \A k \in 0..(loc.n32 - 1) :
             vm.mem[(loc.n32 - 1 - k) + 1] = loc.f_arr[k + 1]
    /\ wc.prime = VmPrime(circuit)
    /\ (Idle /\ result.kind = "ok" /\ call.fn = "calculate_witness"
          /\ circuit.kind = "mul") =>
         \A n \in 1..Len(call.inputs) :
             result.val[EchoIndex(call.inputs[n].name)]
                 = call.inputs[n].values[1]

\* C3's case: an input of two different limbs came back from a two-word VM.
C3_Witness ==
    /\ Idle
    /\ result.kind = "ok"
    /\ call.fn = "calculate_witness"
    /\ circuit.n32 = 2
    /\ \E n \in 1..Len(call.inputs) :
          /\ call.inputs[n].values[1] = 3
          /\ result.val[EchoIndex(call.inputs[n].name)] = 3

\* C4: a successful calculate_witness returns witnessSize elements, element i
\* the integer of the words the VM placed in shared memory for getWitness(i),
\* in index order; a circuit of witness size 1 gives [1].
C4_WitnessVector ==
    (Idle /\ result.kind = "ok" /\ call.fn = "calculate_witness") =>
        /\ Len(result.val) = VmWitnessSize(circuit)
        /\ \A i \in 0..(VmWitnessSize(circuit) - 1) :
              /\ result.val[i + 1]
                    = ReadValue(ops, GetWitnessAt(ops, i), circuit.n32, 0)
              /\ result.val[i + 1] = VmWitnessAt(circuit, vm, i)
        /\ circuit.kind = "one" => result.val = <<1>>

\* C4's case: a full multiplier witness whose product has two different limbs.
C4_Witness ==
    /\ Idle
    /\ result.kind = "ok"
    /\ call.fn = "calculate_witness"
    /\ circuit.kind = "mul"
    /\ circuit.n32 = 2
    /\ result.val[2] = VmPrime(circuit) - 3
    /\ (VmPrime(circuit) - 3) % radix # (VmPrime(circuit) - 3) \div radix

\* C5: a call in which a VM operation failed returns an error; the caller
\* sees nothing before the call returns, and an Ok result is never shorter
\* than the whole witness.
C5_AllOrNothing ==
    /\ pc # "idle" => result = NoResult
    /\ Idle =>
        /\ FaultIn(ops) => result = Err
        /\ result.kind # "ok" => result.val = <<>>
        /\ result.kind = "ok" =>
              Len(result.val) =
                  IF call.fn = "calculate_witness_bin"
                  THEN VmWitnessSize(circuit) * circuit.n32
                  ELSE VmWitnessSize(circuit)

\* C5's case: the VM failed during extraction, after words of the witness
\* had been read.
C5_Witness ==
    /\ Idle
    /\ result = Err
    /\ ops[Len(ops)].op = "getWitness"
    /\ ops[Len(ops)].fault
    /\ \E p \in 1..Len(ops) : ops[p].op = "readSharedRWMemory"

\* C6: once the error callback has fired in a call, the call issues no
\* further VM operation and its outcome is that error.
C6_FaultShortCircuits ==
    \A p \in 1..Len(ops) :
        ops[p].fault => (p = Len(ops) /\ pc = "idle" /\ result = Err)

\* C6's case: set_input_signal raised the error callback after an earlier
\* input had been set.
C6_Witness ==
    /\ Len(ops) > 0
    /\ ops[Len(ops)].op = "setInputSignal"
    /\ ops[Len(ops)].fault
    /\ \E p \in 1..(Len(ops) - 1) : ops[p].op = "setInputSignal"
    /\ pc = "idle"

\* C7: a calculate_witness call returns what an earlier calculate_witness
\* call on the same instance with the same inputs and sanity_check returned,
\* whatever calls happened in between.
C7_Determinism ==
    (Idle /\ memo.set
        /\ SameCall(memo, call.fn, call.inputs, call.sanity_check)) =>
        result = memo.res

\* C7's case: the same successful call again, after a different call.
C7_Witness ==
    /\ Idle
    /\ memo.set
    /\ memo.other
    /\ SameCall(memo, call.fn, call.inputs, call.sanity_check)
    /\ result.kind = "ok"
    /\ Len(result.val) = 4

\* ------------------------------------------------------------ C8 .. C10
SerFieldBytes == ser.self.n32 * BytesPerWord

\* The modulus is positive and its little-endian byte form has exactly
\* wordWidth32 * 4 bytes.
SerModulusValid ==
    /\ ser.self.prime > 0
    /\ Len(magnitude_bytes(ser.self.prime)) = SerFieldBytes

\* C8: with a modulus that is non-positive or not exactly wordWidth32 * 4
\* bytes long, save_witness_from_bin_writer returns an error and has written
\* zero bytes to the writer.
C8_ValidationPrecedesOutput ==
    (ser.st # "input" /\ ~SerModulusValid) =>
        (ser.res = "err" /\ ser.out = <<>>)

\* C9: a successful save emits, little-endian and in this order: "wtns", the
\* version, numberOfSections = 2, sectionId = 1, sectionSize = wordWidth32*4 + 8,
\* fieldByteWidth = wordWidth32*4, fieldByteWidth modulus bytes,
\* witnessElementCount, sectionId = 2, sectionSize = witnessElementCount *
\* fieldByteWidth, then the witness words; section 1's declared size is the
\* number of bytes from the end of its size field to section 2's id.
C9_FileLayout ==
    ser.res = "ok" =>
        LET b == ser.out
            fbw == SerFieldBytes
            at == HeaderBytes + fbw
            count == rd(b, at, BytesPerWord)
            base == at + 4 * BytesPerWord
        IN /\ Len(b) = base + BytesPerWord * Len(ser.wtns)
           /\ SubSeq(b, 1, 4) = wtns_header
           /\ rd(b, 4, BytesPerWord) = ser.self.circom_version
           /\ rd(b, 4 + BytesPerWord, BytesPerWord) = 2
           /\ rd(b, 4 + 2 * BytesPerWord, BytesPerWord) = 1
           /\ rd(b, 4 + 3 * BytesPerWord, 2 * BytesPerWord) = fbw + 8
           /\ rd(b, 4 + 5 * BytesPerWord, BytesPerWord) = fbw
           /\ rd(b, HeaderBytes, fbw) = ser.self.prime
           /\ rd(b, at + BytesPerWord, BytesPerWord) = 2
           /\ rd(b, at + 2 * BytesPerWord, 2 * BytesPerWord) = count * fbw
           /\ \A i \in 1..Len(ser.wtns) :
                 rd(b, base + (i - 1) * BytesPerWord, BytesPerWord) = ser.wtns[i]
           /\ (at + BytesPerWord) - (4 + 5 * BytesPerWord)
                 = rd(b, 4 + 3 * BytesPerWord, 2 * BytesPerWord)

\* The witness vector a flat word vector holds, as calculate_witness
\* reassembles it.
SerVector ==
    build_wo(ser.wtns, ser.self.n32, Len(ser.wtns) \div ser.self.n32, 0)

\* The flat vector is whole elements, each below the modulus.
SerIsWitness ==
    /\ Len(ser.wtns) % ser.self.n32 = 0
    /\ \A i \in 1..Len(SerVector) : SerVector[i] < ser.self.prime

\* C10: for a witness vector whose elements are all below the modulus,
\* decoding the bytes the encoder produced gives the same vector and modulus.
C10_RoundTrip ==
    (ser.st = "read" /\ SerIsWitness) =>
        /\ ser.dec.ok
        /\ ser.dec.modulus = ser.self.prime
        /\ ser.dec.vector = SerVector

\* ------------------------------------------------------------ C11
\* An earlier calculate_witness call with the current call's inputs and
\* sanity_check is remembered.
Remembered ==
    /\ memo.set
    /\ memo.inputs = call.inputs
    /\ memo.sanity_check = call.sanity_check

\* Where the values section's word data starts in a file of field width fbw.
ValuesBase(fbw) == HeaderBytes + fbw + 4 * BytesPerWord

\* C11: in the file written from calculate_witness_bin's flat vector, element
\* i of the values section is fieldByteWidth bytes, the little-endian bytes of
\* the non-negative integer calculate_witness returns at index i; a value of
\* modulus - 1 is written as the bytes of modulus - 1.
C11_ValuesSection ==
    (pc = "idle" /\ ser.st = "saved" /\ ser.res = "ok") =>
        LET fbw == circuit.n32 * BytesPerWord
            base == ValuesBase(fbw)
            element(i) == SubSeq(ser.out, base + i * fbw + 1, base + (i + 1) * fbw)
        IN /\ Len(ser.out) = base + VmWitnessSize(circuit) * fbw
           /\ \A i \in 0..(VmWitnessSize(circuit) - 1) :
                 /\ VmWitnessAt(circuit, vm, i) >= 0
                 /\ element(i) = le_bytes(VmWitnessAt(circuit, vm, i), fbw)
                 /\ (Remembered /\ memo.res.kind = "ok") =>
                       /\ memo.res.val[i + 1] >= 0
                       /\ element(i) = le_bytes(memo.res.val[i + 1], fbw)

\* C11's case: a two-word multiplier witness holding modulus - 1 was saved,
\* and calculate_witness had returned the same witness before.
C11_Witness ==
    /\ pc = "idle"
    /\ ser.st = "saved"
    /\ ser.res = "ok"
    /\ circuit.kind = "mul"
    /\ circuit.n32 = 2
    /\ Remembered
    /\ memo.res.kind = "ok"
    /\ memo.res.val[4] = VmPrime(circuit) - 1

\* ------------------------------------------------------------ C12
\* The integer of a run of words, the least significant word first.
RECURSIVE LswValue(_, _)
LswValue(ws, k) ==
    IF k > Len(ws) THEN 0
    ELSE ws[k] * Pow(radix, k - 1) + LswValue(ws, k + 1)

\* C12: calculate_witness_bin ends as calculate_witness does on the same
\* instance with the same inputs and sanity_check; its flat vector has
\* witnessSize * wordWidth32 words, and run i of wordWidth32 words, decoded
\* least significant word first, is element i of calculate_witness's vector.
C12_BinEquivalence ==
    (Idle /\ call.fn = "calculate_witness_bin" /\ Remembered) =>
        /\ result.kind = memo.res.kind
        /\ result.kind = "ok" =>
              LET n32 == circuit.n32
                  run(i) == SubSeq(result.val, i * n32 + 1, (i + 1) * n32)
              IN /\ Len(result.val) = VmWitnessSize(circuit) * n32
                 /\ Len(memo.res.val) = VmWitnessSize(circuit)
                 /\ \A i \in 0..(VmWitnessSize(circuit) - 1) :
                       LswValue(run(i), 1) = memo.res.val[i + 1]

\* C12's case: calculate_witness_bin returned a two-word multiplier witness
\* whose product has two different limbs, after calculate_witness had.
C12_Witness ==
    /\ Idle
    /\ call.fn = "calculate_witness_bin"
    /\ Remembered
    /\ result.kind = "ok"
    /\ memo.res.kind = "ok"
    /\ circuit.kind = "mul"
    /\ circuit.n32 = 2
    /\ memo.res.val[2] = VmPrime(circuit) - 3
    /\ result.val[3] # result.val[4]

\* ------------------------------------------------------------ C13
InjectionOps == {"writeSharedRWMemory", "setInputSignal"}
ExtractionOps == {"getWitnessSize", "getWitness", "readSharedRWMemory"}

IsInjection(o) == o.op \in InjectionOps

\* An operation of the log without its outcome.
Issued(o) == [op |-> o.op, name |-> o.name, idx |-> o.idx, val |-> o.val]

\* The operations that inject value number i of the signal `name`: its
\* wordWidth32 words, slot 0 (least significant) first, then set_input_signal.
InjectValue(name, value, i, n32) ==
    [j \in 1..n32 |->
        [op |-> "writeSharedRWMemory", name |-> "", idx |-> j - 1,
         val |-> (value \div Pow(radix, j - 1)) % radix]]
    \o <<[op |-> "setInputSignal", name |-> name, idx |-> i, val |-> 0]>>

\* The operations that inject all inputs, from value vi of input ii on.
RECURSIVE InjectFrom(_, _, _, _)
InjectFrom(inputs, ii, vi, n32) ==
    IF ii > Len(inputs) THEN <<>>
    ELSE IF vi > Len(inputs[ii].values) THEN InjectFrom(inputs, ii + 1, 1, n32)
    ELSE InjectValue(inputs[ii].name, inputs[ii].values[vi], vi - 1, n32)
         \o InjectFrom(inputs, ii, vi + 1, n32)

\* The call has passed the loops over its inputs.
InputsLoaded ==
    \/ pc \in {"wsize", "get_witness", "read", "n32b", "wsize2"}
    \/ pc = "idle" /\ result.kind = "ok"

\* C13: the shared-memory writes and set_input_signal calls of a call are,
\* in order, those of its inputs in the caller's order and of each input's
\* values in position order: for each value its wordWidth32 words (the value
\* as supplied, not reduced modulo the modulus), then one set_input_signal
\* with the value's position; once the inputs are loaded every supplied value
\* has had exactly that, and nothing is injected after extraction began.
C13_InjectionProtocol ==
    LET inj == SelectSeq(ops, IsInjection)
        exp == InjectFrom(call.inputs, 1, 1, circuit.n32)
    IN /\ Len(inj) <= Len(exp)
       /\ \A p \in 1..Len(inj) : Issued(inj[p]) = exp[p]
       /\ InputsLoaded => Len(inj) = Len(exp)
       /\ \A p \in 1..Len(ops) : \A q \in (p + 1)..Len(ops) :
             ops[p].op \in ExtractionOps => ops[q].op \notin InjectionOps

\* C13's case: two inputs of a two-word circuit are loaded, the second one a
\* value above the modulus.
C13_Witness ==
    /\ pc = "wsize"
    /\ circuit.n32 = 2
    /\ Len(call.inputs) = 2
    /\ call.inputs[2].values[1] >= wc.prime
    /\ Len(SelectSeq(ops, IsInjection)) = 6

\* ------------------------------------------------------------ C14
\* C14: the modulus, n64 and circom_version the calculator cached at load
\* are what new_circom discovered, during and after every calculate_witness,
\* calculate_witness_bin, calculate_witness_element and
\* save_witness_from_bin_writer call, failed or not; no call asks the VM for
\* the raw prime again.
C14_CachedParameters ==
    /\ wc = new_circom(circuit)
    /\ wc.prime = VmPrime(circuit)
    /\ \A p \in 1..Len(ops) : ops[p].op # "getRawPrime"
    /\ ser.st = "saved" => ser.self = new_circom(circuit)

\* C14's case: a call failed on an instance on which an earlier
\* calculate_witness call had succeeded and another call was made since.
C14_Witness ==
    /\ Idle
    /\ result = Err
    /\ memo.set
    /\ memo.other
    /\ memo.res.kind = "ok"

\* ------------------------------------------------------------ C15
\* The inputs that name the signal n.
Assigning(inputs, n) == {k \in 1..Len(inputs) : inputs[k].name = n}

\* The value the inputs give the signal n, zero when they give none.
ValueOf(inputs, n) ==
    IF Assigning(inputs, n) = {} THEN 0
    ELSE inputs[CHOOSE k \in Assigning(inputs, n) : TRUE].values[1]

\* Inputs a sound circuit accepts: each names an input signal of the
\* circuit, once, with one value that the circuit's words hold.
NonFaulting(c, inputs) ==
    /\ c.trap = "none"
    /\ \A k \in 1..Len(inputs) :
          /\ c.kind = "mul"
          /\ inputs[k].name \in SignalNames
          /\ Assigning(inputs, inputs[k].name) = {k}
          /\ Len(inputs[k].values) = 1
          /\ InRange(inputs[k].values[1], c.n32)

\* The witness of a sound circuit for accepted inputs, as the first call on
\* a freshly loaded instance returns it.
FreshWitness(c, inputs) ==
    IF c.kind = "one" THEN <<1>>
    ELSE <<1,
           IF Assigning(inputs, "a") # {} /\ Assigning(inputs, "b") # {}
           THEN (ValueOf(inputs, "a") * ValueOf(inputs, "b")) % VmPrime(c)
           ELSE 0,
           ValueOf(inputs, "a"),
           ValueOf(inputs, "b")>>

\* C15: a calculate_witness call with inputs the circuit accepts returns the
\* witness a freshly loaded instance returns for them, whatever calls the
\* instance served before, failed ones included; and the inputs of a call that
\* ended in an error fail again.
C15_ReusableAfterFailure ==
    (Idle /\ call.fn = "calculate_witness") =>
        /\ NonFaulting(circuit, call.inputs) =>
              result = Ok(FreshWitness(circuit, call.inputs))
        /\ (memo.set /\ memo.res = Err
               /\ SameCall(memo, call.fn, call.inputs, call.sanity_check)) =>
              result = Err

\* C15's case: calculate_witness succeeded on a two-word multiplier after an
\* earlier calculate_witness call on the instance had ended in an error.
C15_Witness ==
    /\ Idle
    /\ call.fn = "calculate_witness"
    /\ memo.set
    /\ memo.res = Err
    /\ memo.other
    /\ result.kind = "ok"
    /\ circuit.kind = "mul"
    /\ circuit.n32 = 2
    /\ result.val[3] = 3

\* ------------------------------------------------------------ C16
\* The artefact cannot be loaded: its bytecode is malformed or it imports a
\* host function that is not registered.
Unloadable(artifact) ==
    \/ artifact.bytes # "wasm"
    \/ ~(artifact.imports \subseteq RegisteredImports)

\* C16: WitnessCalculator::new, from_file and from_module return an error
\* value, without panicking, when the artefact is malformed bytecode or
\* imports a host function that is not registered.
C16_LoadErrorIsValue ==
    (load.st = "done" /\ Unloadable(load.artifact)) => load.res = Err

\* ------------------------------------------------------------ C17
\* The inputs give the multiplier's a and b, each below the modulus.
MultiplierInputs(c, inputs) ==
    /\ c.kind = "mul"
    /\ NonFaulting(c, inputs)
    /\ Assigning(inputs, "a") # {}
    /\ Assigning(inputs, "b") # {}
    /\ ValueOf(inputs, "a") < VmPrime(c)
    /\ ValueOf(inputs, "b") < VmPrime(c)

\* C17: for the multiplier, calculate_witness with inputs a and b below the
\* modulus returns [1, a * b mod modulus, a, b]; a = 3, b = 11 gives
\* [1, 33, 3, 11].
C17_Multiplier ==
    (Idle /\ call.fn = "calculate_witness"
        /\ MultiplierInputs(circuit, call.inputs)) =>
        LET a == ValueOf(call.inputs, "a")
            b == ValueOf(call.inputs, "b")
        IN /\ result = Ok(<<1, (a * b) % VmPrime(circuit), a, b>>)
           /\ (a = 3 /\ b = 11) => result.val = <<1, 33, 3, 11>>

\* C17's case: the two-word multiplier returned [1, 33, 3, 11].
C17_Witness ==
    /\ Idle
    /\ call.fn = "calculate_witness"
    /\ circuit.kind = "mul"
    /\ circuit.n32 = 2
    /\ call.inputs = <<In("a", <<3>>), In("b", <<11>>)>>
    /\ result = Ok(<<1, 33, 3, 11>>)

\* ------------------------------------------------------------ C18
\* Largest magnitude of the integers the inputs' leaves stand for.
MaxLeafInteger == 20

\* The paths (item indices from the top) to the leaves of a value; an array
\* is no leaf.
RECURSIVE LeafPaths(_)
LeafPaths(value) ==
    IF value.t = "array"
    THEN UNION {{<<k>> \o p : p \in LeafPaths(value.items[k])} :
                   k \in 1..Len(value.items)}
    ELSE {<<>>}

RECURSIVE ValueAt(_, _)
ValueAt(value, path) ==
    IF path = <<>> THEN value
    ELSE ValueAt(value.items[Head(path)], Tail(path))

\* Path p comes before path q in document order.
Before(p, q) ==
    \E k \in 1..Len(p) :
        /\ k <= Len(q)
        /\ p[k] < q[k]
        /\ \A j \in 1..(k - 1) : p[j] = q[j]

\* The leaf is a boolean, an integer, or the decimal string of an integer.
HasInteger(leaf) ==
    \/ leaf.t = "bool"
    \/ leaf.t = "number" /\ ~leaf.frac
    \/ leaf.t = "string"
         /\ \E n \in (-MaxLeafInteger)..MaxLeafInteger :
               IntegerToString(n) = leaf.s

IntegerOf(leaf) ==
    IF leaf.t = "bool" THEN (IF leaf.b THEN 1 ELSE 0)
    ELSE IF leaf.t = "number" THEN leaf.n
    ELSE CHOOSE n \in (-MaxLeafInteger)..MaxLeafInteger :
             IntegerToString(n) = leaf.s

\* C18: for an input whose leaves are booleans, integers and decimal
\* strings, flat_array returns one integer per leaf, in document order
\* (depth-first, left to right): 1 for true, 0 for false, and the integer a
\* string or number stands for.
C18_FlatArray ==
    flat.st = "done" =>
        LET top == JsonArray(flat.v)
            paths == LeafPaths(top)
            rank(p) == Cardinality({q \in paths : Before(q, p)}) + 1
        IN (\A p \in paths : HasInteger(ValueAt(top, p))) =>
              /\ flat.res.ok
              /\ Len(flat.res.val) = Cardinality(paths)
              /\ \A p \in paths :
                    flat.res.val[rank(p)] = IntegerOf(ValueAt(top, p))

\* C18's case: [[true, "-3"], "-3"] wrapped once more, or the like: a nested
\* array of two different leaves followed by a leaf was flattened.
C18_Witness ==
    /\ flat.st = "done"
    /\ flat.res.ok
    /\ Len(flat.v) = 1
    /\ flat.v[1].t = "array"
    /\ Len(flat.v[1].items) = 2
    /\ flat.v[1].items[1].t = "array"
    /\ Len(flat.v[1].items[1].items) = 2
    /\ flat.v[1].items[2].t = "string"
    /\ Len(flat.res.val) = 3
    /\ flat.res.val[1] # flat.res.val[2]
    /\ flat.res.val[3] = -3

\* ------------------------------------------------------------ C19
\* C19: every element calculate_witness decodes and returns is a
\* non-negative integer, so calculate_witness_element never takes its
\* modulus - |value| branch: each field element it returns is the element of
\* the value decoded from the words read for getWitness(i).
C19_NonNegativeWitness ==
    /\ pc = "wsize2" =>
          \A i \in 0..((Len(loc.w) \div loc.n32) - 1) :
              from_array32(reassemble(loc.w, loc.n32, i)) >= 0
    /\ (Idle /\ result.kind = "ok" /\ call.fn = "calculate_witness") =>
          \A k \in 1..Len(result.val) : result.val[k] >= 0
    /\ (Idle /\ result.kind = "ok" /\ call.fn = "calculate_witness_element") =>
          /\ Len(result.val) = VmWitnessSize(circuit)
          /\ \A i \in 0..(VmWitnessSize(circuit) - 1) :
                result.val[i + 1] =
                    fr_from_str(ReadValue(ops, GetWitnessAt(ops, i), circuit.n32, 0))

\* C19's case: calculate_witness_element returned a two-word witness that
\* holds modulus - 1, a value with the top limb's high bit set.
C19_Witness ==
    /\ Idle
    /\ result.kind = "ok"
    /\ call.fn = "calculate_witness_element"
    /\ circuit.kind = "mul"
    /\ circuit.n32 = 2
    /\ result.val[4] = VmPrime(circuit) - 1
    /\ 2 * result.val[4] >= Pow(radix, circuit.n32)

\* ------------------------------------------------------------ C20
\* Saving the vector to a writer that takes every byte succeeds.
SaveWouldSucceed ==
    save_witness_from_bin_writer(file.self, file.wtns, file.build).res = "ok"

\* C20: when the target file cannot be opened, or cannot be written while
\* the save would otherwise succeed, save_witness_to_bin_file returns the
\* I/O error; it neither panics nor reports success.
C20_IoErrorPropagated ==
    file.st = "saved" =>
        /\ file.target = "cannot_open" => file.res = "io_err"
        /\ (file.target = "cannot_write" /\ SaveWouldSucceed) =>
              file.res = "io_err"


\* ---------------------------------------------------------------------
\* C21: the order of the phases of a call.

IsInit(o) == o.op = "init"
IsSetInput(o) == o.op = "setInputSignal"
ReadsWitness(o) == o.op \in {"getWitnessSize", "getWitness"}

\* The VM has been asked for the witness size or for a witness element.
Extracting == \E p \in 1..Len(ops) : ReadsWitness(ops[p])

\* C21: within one call, init has completed before any shared-memory write
\* and before any set_input_signal; every set_input_signal of the call (one
\* for each supplied value) has completed before the witness size is read and
\* before the first get_witness; and init is never issued once the first
\* input word has been written.
C21_PhaseOrder ==
    /\ \A q \in 1..Len(ops) :
          IsInjection(ops[q]) =>
             \E p \in 1..(q - 1) : IsInit(ops[p]) /\ ~ops[p].fault
    /\ \A p \in 1..Len(ops) : \A q \in (p + 1)..Len(ops) :
          /\ IsInjection(ops[p]) => ~IsInit(ops[q])
          /\ ReadsWitness(ops[p]) => ~IsSetInput(ops[q])
    /\ Extracting =>
          /\ Len(SelectSeq(ops, IsSetInput))
                = Len(SelectSeq(InjectFrom(call.inputs, 1, 1, circuit.n32),
                                IsSetInput))
          /\ \A p \in 1..Len(ops) : IsSetInput(ops[p]) => ~ops[p].fault

\* C21's case: a call that initialised the instance, wrote the words of two
\* values, set both signals and then extracted the witness has returned.
C21_Witness ==
    /\ pc = "idle"
    /\ result.kind = "ok"
    /\ Len(SelectSeq(ops, IsInit)) >= 1
    /\ Len(SelectSeq(ops, IsSetInput)) = 2
    /\ \E p \in 1..Len(ops) : ops[p].op = "writeSharedRWMemory"
    /\ \E p \in 1..Len(ops) : ops[p].op = "getWitness"

\* ---------------------------------------------------------------------
\* C22: the parameters discovered when a calculator is loaded.

\* The calculator a successful load returned.
Loaded == load.st = "done" /\ load.res.kind = "ok"

\* C22: the modulus a loaded calculator caches is the sum of
\* word[i] * 2^(32*i) over the wordWidth32 words the VM leaves in shared
\* memory after getRawPrime, and n64 is the least number of 64-bit words
\* that hold it: the modulus is below 2^(64*n64) and not below
\* 2^(64*(n64-1)).
C22_ParameterDiscovery ==
    Loaded =>
       LET c == load.artifact.circuit
           words == vm_get_raw_prime(c, VmFresh(c)).vm.mem
           wc0 == load.res.val
           top == wc0.prime \div Pow(radix, 2 * (wc0.n64 - 1))
       IN /\ Len(words) = wc0.n32
          /\ wc0.prime = LswValue(words, 1)
          /\ wc0.n64 >= 1
          /\ top >= 1
          /\ top < radix * radix

\* C22's case: a modulus of three 32-bit words, which two 64-bit words hold
\* and one does not, has been loaded.
C22_Witness ==
    /\ Loaded
    /\ load.res.val.n32 = 3
    /\ load.res.val.n64 = 2
    /\ load.res.val.prime >= radix * radix

\* ---------------------------------------------------------------------
\* C23: the sizes the saved file declares for its witness section.

\* C23: in the file a save wrote, witnessElementCount * fieldByteWidth and
\* section 2's u64 sectionSize both equal the number of bytes of word data
\* that follow the section 2 header, which is 4 * wtns.len(), whatever the
\* length of the flat vector.
C23_DeclaredSizes ==
    ser.res = "ok" =>
        LET b == ser.out
            fbw == SerFieldBytes
            at == HeaderBytes + fbw
            count == rd(b, at, BytesPerWord)
            size2 == rd(b, at + 2 * BytesPerWord, 2 * BytesPerWord)
            written == Len(b) - (at + 4 * BytesPerWord)
        IN /\ written = BytesPerWord * Len(ser.wtns)
           /\ count * fbw = written
           /\ size2 = written

\* ---------------------------------------------------------------------
\* C24: read_custom_gates_list comes to an end.

\* C24: for every finite stream, also one that declares custom gates,
\* read_custom_gates_list stops by returning Ok or Err.
C24_ReturnsOkOrErr ==
    gates.st = "stopped" => gates.res \in {"ok", "err"}

====
